---- MODULE Spec2Model ----
(***************************************************************************)
(* The survey dashboard of src/app.py: the cached loader load_data, which  *)
(* cleans survey.csv into the canonical table df, and the filter block of  *)
(* the Streamlit script, which derives filtered_df from df and the four    *)
(* sidebar widgets on every run of the script.                             *)
(*                                                                         *)
(* A Python str is modelled as the sequence of its characters, so that     *)
(* str.lower, str.strip and the timestamp parse work on characters.  A     *)
(* missing cell (pandas NaN / NaT) is the value NaN below.                 *)
(*                                                                         *)
(* Spec      the dashboard: a session opens the page, then the user        *)
(*           changes one widget per run of the script.                     *)
(* SpecLoad  load_data and the page with its default widgets, over files   *)
(*           with more kinds of rows.                                      *)
(* SpecApi   the filter block given arbitrary criteria, a low age bound    *)
(*           above the high one included (the slider returns none such).   *)
(* SpecCache runs of the script in one process while survey.csv changes.   *)
(***************************************************************************)
EXTENDS Integers, Sequences, FiniteSets

VARIABLES
    source,          \* survey.csv as pd.read_csv returns it: a sequence of raw rows
    copy_on_write,   \* whether the installed pandas runs with Copy-on-Write
    cache,           \* st.cache_data's store for load_data: <<>> or <<table>>
    data_loaded,     \* the script's data_loaded flag
    df,              \* the canonical table of the current run
    selected_gender, age_range, selected_countries, treatment_filter,
    filtered_df,     \* the filtered view of the current run
    pc,              \* how far the last run of the script got
    render           \* how the part of the run after the filter block ended

vars == <<source, copy_on_write, cache, data_loaded, df, selected_gender,
          age_range, selected_countries, treatment_filter, filtered_df, pc,
          render>>

-----------------------------------------------------------------------------
(* String literals of the script. *)

\* A missing cell. It is a one-element tuple holding a token that is no
\* character, so it differs from every string.
NaN == <<"NaN">>

Male == <<"M", "a", "l", "e">>
Female == <<"F", "e", "m", "a", "l", "e">>
Trans == <<"T", "r", "a", "n", "s">>
NonBinary == <<"N", "o", "n", "-", "b", "i", "n", "a", "r", "y">>
Other == <<"O", "t", "h", "e", "r">>
NotApplicable == <<"N", "o", "t", " ", "A", "p", "p", "l", "i", "c", "a", "b", "l", "e">>
No == <<"N", "o">>
Yes == <<"Y", "e", "s">>
All == <<"A", "l", "l">>

-----------------------------------------------------------------------------
(* str.lower and str.strip, character by character. *)

UpperCase ==
    <<"A", "B", "C", "D", "E", "F", "G", "H", "I", "J", "K", "L", "M",
      "N", "O", "P", "Q", "R", "S", "T", "U", "V", "W", "X", "Y", "Z">>

LowerCase ==
    <<"a", "b", "c", "d", "e", "f", "g", "h", "i", "j", "k", "l", "m",
      "n", "o", "p", "q", "r", "s", "t", "u", "v", "w", "x", "y", "z">>

Whitespace == {" ", "\t", "\n", "\r"}

LowerChar(c) ==
    IF \E i \in 1..Len(UpperCase) : UpperCase[i] = c
    THEN LowerCase[CHOOSE i \in 1..Len(UpperCase) : UpperCase[i] = c]
    ELSE c

\* Series.str.lower on one cell: NaN stays NaN.
str_lower(s) ==
    IF s = NaN THEN NaN ELSE [i \in 1..Len(s) |-> LowerChar(s[i])]

\* Series.str.strip on one cell: leading and trailing whitespace removed.
str_strip(s) ==
    IF s = NaN THEN NaN
    ELSE LET keep == {i \in 1..Len(s) : s[i] \notin Whitespace}
         IN IF keep = {} THEN <<>>
            ELSE LET lo == CHOOSE i \in keep : \A j \in keep : i <= j
                     hi == CHOOSE i \in keep : \A j \in keep : j <= i
                 IN SubSeq(s, lo, hi)

-----------------------------------------------------------------------------
(* The synonym table, as <<key, value>> pairs in the order of the source. *)

gender_map ==
    << <<<<"m", "a", "l", "e">>, Male>>,  \* 'male'
       <<<<"m">>, Male>>,  \* 'm'
       <<<<"m", "a", "n">>, Male>>,  \* 'man'
       <<<<"c", "i", "s", " ", "m", "a", "l", "e">>, Male>>,  \* 'cis male'
       <<<<"m", "a", "l", "e", "-", "i", "s", "h">>, Male>>,  \* 'male-ish'
       <<<<"m", "a", "i", "l", "e">>, Male>>,  \* 'maile'
       <<<<"m", "a", "l">>, Male>>,  \* 'mal'
       <<<<"m", "a", "l", "e", " ", "(", "c", "i", "s", ")">>, Male>>,  \* 'male (cis)'
       <<<<"m", "a", "k", "e">>, Male>>,  \* 'make'
       <<<<"m", "a", "l", "e", " ">>, Male>>,  \* 'male '
       <<<<"m", "s", "l", "e">>, Male>>,  \* 'msle'
       <<<<"m", "a", "i", "l">>, Male>>,  \* 'mail'
       <<<<"m", "a", "l", "r">>, Male>>,  \* 'malr'
       <<<<"c", "i", "s", " ", "m", "a", "n">>, Male>>,  \* 'cis man'
       <<<<"f", "e", "m", "a", "l", "e">>, Female>>,  \* 'female'
       <<<<"f">>, Female>>,  \* 'f'
       <<<<"w", "o", "m", "a", "n">>, Female>>,  \* 'woman'
       <<<<"c", "i", "s", " ", "f", "e", "m", "a", "l", "e">>, Female>>,  \* 'cis female'
       <<<<"f", "e", "m", "a", "k", "e">>, Female>>,  \* 'femake'
       <<<<"f", "e", "m", "a", "l", "e", " ">>, Female>>,  \* 'female '
       <<<<"c", "i", "s", "-", "f", "e", "m", "a", "l", "e", "/", "f", "e", "m", "m", "e">>, Female>>,  \* 'cis-female/femme'
       <<<<"f", "e", "m", "a", "l", "e", " ", "(", "c", "i", "s", ")">>, Female>>,  \* 'female (cis)'
       <<<<"f", "e", "m", "a", "i", "l">>, Female>>,  \* 'femail'
       <<<<"t", "r", "a", "n", "s", "-", "f", "e", "m", "a", "l", "e">>, Trans>>,  \* 'trans-female'
       <<<<"t", "r", "a", "n", "s", " ", "w", "o", "m", "a", "n">>, Trans>>,  \* 'trans woman'
       <<<<"f", "e", "m", "a", "l", "e", " ", "(", "t", "r", "a", "n", "s", ")">>, Trans>>,  \* 'female (trans)'
       <<<<"n", "o", "n", "-", "b", "i", "n", "a", "r", "y">>, NonBinary>>,  \* 'non-binary'
       <<<<"g", "e", "n", "d", "e", "r", "q", "u", "e", "e", "r">>, NonBinary>>,  \* 'genderqueer'
       <<<<"f", "l", "u", "i", "d">>, NonBinary>>,  \* 'fluid'
       <<<<"q", "u", "e", "e", "r">>, NonBinary>>,  \* 'queer'
       <<<<"a", "n", "d", "r", "o", "g", "y", "n", "e">>, NonBinary>>,  \* 'androgyne'
       <<<<"a", "g", "e", "n", "d", "e", "r">>, NonBinary>>,  \* 'agender'
       <<<<"g", "e", "n", "d", "e", "r", "f", "l", "u", "i", "d">>, NonBinary>>,  \* 'genderfluid'
       <<<<"e", "n", "b", "y">>, NonBinary>>   \* 'enby'
    >>

\* Series.map(gender_map) on one cell: the entry of the key, NaN without one.
map_gender(k) ==
    IF \E i \in 1..Len(gender_map) : gender_map[i][1] = k
    THEN gender_map[CHOOSE i \in 1..Len(gender_map) : gender_map[i][1] = k][2]
    ELSE NaN

\* Series.fillna(value) on one cell.
fillna(x, value) == IF x = NaN THEN value ELSE x

\* standardize_gender without the .str.strip().
standardize_gender_NoStrip(g) == fillna(map_gender(str_lower(g)), Other)

\* df['Gender'].str.lower().str.strip(), then .map(gender_map).fillna('Other').
standardize_gender(g) == fillna(map_gender(str_strip(str_lower(g))), Other)

-----------------------------------------------------------------------------
(* pd.cut with the default right=True: bin i is (bins[i], bins[i+1]]. *)

bins == <<0, 25, 35, 45, 55, 100>>

labels ==
    << <<"1", "8", "-", "2", "5">>,      \* '18-25'
       <<"2", "6", "-", "3", "5">>,      \* '26-35'
       <<"3", "6", "-", "4", "5">>,      \* '36-45'
       <<"4", "6", "-", "5", "5">>,      \* '46-55'
       <<"5", "6", "+">> >>              \* '56+'

\* pd_cut with right=False: bin i is [bins[i], bins[i+1]).
pd_cut_LeftClosed(x) ==
    IF \E i \in 1..Len(labels) : bins[i] <= x /\ x < bins[i + 1]
    THEN labels[CHOOSE i \in 1..Len(labels) : bins[i] <= x /\ x < bins[i + 1]]
    ELSE NaN

\* pd.cut on one cell: the label of the bin holding x, NaN when no bin holds it.
pd_cut(x) ==
    IF \E i \in 1..Len(labels) : bins[i] < x /\ x <= bins[i + 1]
    THEN labels[CHOOSE i \in 1..Len(labels) : bins[i] < x /\ x <= bins[i + 1]]
    ELSE NaN

-----------------------------------------------------------------------------
(* pd.to_datetime on the survey's 'YYYY-MM-DD hh:mm:ss' timestamps. *)

Digits == <<"0", "1", "2", "3", "4", "5", "6", "7", "8", "9">>

IsDigit(c) == \E i \in 1..Len(Digits) : Digits[i] = c

DigitVal(c) == (CHOOSE i \in 1..Len(Digits) : Digits[i] = c) - 1

RECURSIVE Number(_)
Number(s) ==
    IF s = <<>> THEN 0
    ELSE 10 * Number(SubSeq(s, 1, Len(s) - 1)) + DigitVal(s[Len(s)])

DaysInMonth(y, m) ==
    IF m = 2
    THEN (IF (y % 4 = 0 /\ y % 100 # 0) \/ y % 400 = 0 THEN 29 ELSE 28)
    ELSE IF m \in {4, 6, 9, 11} THEN 30 ELSE 31

\* The fields of a timestamp text, read at the places of the format.
TimestampFields(s) ==
    [year   |-> Number(SubSeq(s, 1, 4)),   month  |-> Number(SubSeq(s, 6, 7)),
     day    |-> Number(SubSeq(s, 9, 10)),  hour   |-> Number(SubSeq(s, 12, 13)),
     minute |-> Number(SubSeq(s, 15, 16)), second |-> Number(SubSeq(s, 18, 19))]

\* Whether pd.to_datetime accepts the cell: a missing cell becomes NaT, a text
\* must be a date and time; anything else raises.
Parseable(s) ==
    \/ s = NaN
    \/ /\ Len(s) = 19
       /\ \A i \in (1..19) \ {5, 8, 11, 14, 17} : IsDigit(s[i])
       /\ s[5] = "-" /\ s[8] = "-" /\ s[11] = " " /\ s[14] = ":" /\ s[17] = ":"
       /\ LET t == TimestampFields(s)
          IN /\ t.month \in 1..12
             /\ t.day \in 1..DaysInMonth(t.year, t.month)
             /\ t.hour \in 0..23 /\ t.minute \in 0..59 /\ t.second \in 0..59

\* pd.to_datetime on one cell that it accepts: NaT for a missing cell, the
\* date and time of a text. (A text it rejects makes load_data raise, see
\* TimestampRaises; NaT stands in for it here.)
to_datetime(s) == IF s = NaN \/ ~Parseable(s) THEN NaN ELSE TimestampFields(s)

-----------------------------------------------------------------------------
(* load_data. *)

\* pd.read_csv: the rows of the file under a RangeIndex.
read_csv(src) ==
    [i \in 1..Len(src) |->
        [index |-> i - 1, Timestamp |-> src[i].Timestamp, Age |-> src[i].Age,
         Gender |-> src[i].Gender, Country |-> src[i].Country,
         state |-> src[i].state, self_employed |-> src[i].self_employed,
         treatment |-> src[i].treatment,
         work_interfere |-> src[i].work_interfere]]

\* AgeOutlierMask with the lower end inclusive.
AgeOutlierMask_Inclusive(r) == r.Age >= 16 /\ r.Age < 100

\* df[(df['Age'] > 16) & (df['Age'] < 100)]
AgeOutlierMask(r) == r.Age > 16 /\ r.Age < 100

\* A column read with no text in it at all is a float column of NaN, and the
\* .str accessor raises AttributeError on it; a file with no row gives an
\* object column, which has the accessor.
StrAccessorRaises(raw) ==
    Len(raw) > 0 /\ \A i \in 1..Len(raw) : raw[i].Gender = NaN

\* df[col].fillna(value, inplace=True) fills a Series selected from df. Without
\* Copy-on-Write (pandas < 3) the Series is a view and the frame's column is
\* filled; with Copy-on-Write (pandas >= 3) the Series is a temporary and the
\* frame keeps its cells. The warning about it is silenced by
\* warnings.filterwarnings('ignore').
ChainedFillna(x, value, cow) == IF cow THEN x ELSE fillna(x, value)

\* One row through the column steps of load_data, in their order.
CleanRow(r, cow) ==
    [index          |-> r.index,
     Age            |-> r.Age,
     Country        |-> r.Country,
     treatment      |-> r.treatment,
     Gender         |-> standardize_gender(r.Gender),
     state          |-> ChainedFillna(r.state, NotApplicable, cow),
     work_interfere |-> ChainedFillna(r.work_interfere, NotApplicable, cow),
     self_employed  |-> ChainedFillna(r.self_employed, No, cow),
     Age_Group      |-> pd_cut(r.Age),
     Timestamp      |-> to_datetime(r.Timestamp)]

\* TimestampRaises with errors='coerce': a text that is no date becomes NaT.
TimestampRaises_Coerce(kept) == FALSE

\* The rows whose Timestamp pd.to_datetime is given: those the age filter kept.
TimestampRaises(kept) ==
    \E i \in 1..Len(kept) : ~Parseable(kept[i].Timestamp)

\* load_data(): [raised |-> TRUE] when a step raises, else the returned frame.
load_data(src, cow) ==
    LET raw  == read_csv(src)
        kept == SelectSeq(raw, AgeOutlierMask)
    IN IF StrAccessorRaises(raw) \/ TimestampRaises(kept)
       THEN [raised |-> TRUE, value |-> <<>>]
       ELSE [raised |-> FALSE,
             value  |-> [i \in 1..Len(kept) |-> CleanRow(kept[i], cow)]]

\* load_data without the decorator: every call parses the file.
cached_load_data_Reparsing(store, src, cow) == load_data(src, cow)

\* @st.cache_data around load_data, which takes no argument: the first call
\* that returns stores its value, every later call returns the stored value;
\* a call that raises stores nothing.
cached_load_data(store, src, cow) ==
    IF store # <<>> THEN [raised |-> FALSE, value |-> store[1]]
    ELSE load_data(src, cow)

-----------------------------------------------------------------------------
(* Survey files the model runs on. *)

Germany == <<"G", "e", "r", "m", "a", "n", "y">>
Canada == <<"C", "a", "n", "a", "d", "a">>
CA == <<"C", "A">>
ON == <<"O", "N">>
Often == <<"O", "f", "t", "e", "n">>
Never == <<"N", "e", "v", "e", "r">>
Rarely == <<"R", "a", "r", "e", "l", "y">>
\* '2014-08-27 11:29:31'
TsGood ==
    <<"2", "0", "1", "4", "-", "0", "8", "-", "2", "7", " ", "1", "1", ":", "2", "9", ":", "3", "1">>
\* 'not a date'
TsText == <<"n", "o", "t", " ", "a", " ", "d", "a", "t", "e">>
\* '2014-02-30 10:00:00': no such day
TsFeb30 ==
    <<"2", "0", "1", "4", "-", "0", "2", "-", "3", "0", " ", "1", "0", ":", "0", "0", ":", "0", "0">>

RawRow(ts, age, gender, country, st, se, tr, wi) ==
    [Timestamp |-> ts, Age |-> age, Gender |-> gender, Country |-> country,
     state |-> st, self_employed |-> se, treatment |-> tr, work_interfere |-> wi]

\* The largest number of rows of a survey file.
MaxRows == 2

\* Rows of the files the dashboard is run on.
SampleRows ==
    { RawRow(TsGood, 25, <<"C", "i", "s", " ", "M", "a", "l", "e">>,
             Germany, NaN, NaN, Yes, NaN),
      RawRow(TsGood, 26, <<" ", "F", " ">>,
             Germany, CA, Yes, No, Often),
      RawRow(TsGood, 27, <<"x", "y", "z", "1", "2", "3">>,
             Canada, ON, No, Yes, Never),
      RawRow(TsText, 15, <<"M", "a", "l", "e">>,
             Germany, NaN, No, Yes, Often),
      RawRow(TsText, 26, <<"f", "e", "m", "a", "l", "e">>,
             Canada, ON, No, No, NaN) }

\* Further rows of the files load_data alone is run on.
MoreRows ==
    { RawRow(TsGood, 26, <<"M", "a", "l", "e", " ">>,
             Canada, NaN, NaN, No, NaN),
      RawRow(TsGood, -1, <<"m", "a", "l", "e">>,
             Canada, NaN, NaN, No, NaN),
      RawRow(TsGood, 16, <<"M">>,
             Germany, NaN, No, Yes, Rarely),
      RawRow(TsGood, 17, <<"F", "e", "m", "a", "l", "e", " ", "(", "t", "r", "a", "n", "s", ")">>,
             Canada, NaN, NaN, Yes, Often),
      RawRow(TsGood, 35, <<"\t", "W", "o", "m", "a", "n", "\n">>,
             Germany, NaN, Yes, No, NaN),
      RawRow(TsGood, 36, <<"E", "n", "b", "y">>,
             Canada, ON, NaN, Yes, Often),
      RawRow(TsGood, 45, NaN,
             Germany, NaN, NaN, No, NaN),
      RawRow(TsGood, 46, <<"M", "A", "L", "E">>,
             Canada, NaN, No, No, Never),
      RawRow(TsGood, 55, <<" ", " ">>,
             Germany, NaN, NaN, Yes, NaN),
      RawRow(TsGood, 56, <<"M", "a", "l", "e", "-", "i", "s", "h">>,
             Canada, CA, No, No, Rarely),
      RawRow(TsGood, 99, <<"f">>,
             Germany, NaN, NaN, Yes, NaN),
      RawRow(TsGood, 100, <<"F", "e", "m", "a", "l", "e">>,
             Canada, NaN, No, No, Never),
      RawRow(TsFeb30, 329, NaN,
             Germany, NaN, NaN, Yes, NaN),
      RawRow(TsFeb30, 35, <<"G", "u", "y">>,
             Canada, NaN, NaN, No, Never),
      RawRow(TsGood, 18, <<"q", "u", "e", "e", "r">>,
             Germany, NaN, NaN, No, NaN) }

LoaderRows == SampleRows \cup MoreRows

Files(rows) == UNION {[1..n -> rows] : n \in 0..MaxRows}

-----------------------------------------------------------------------------
(* The sidebar widgets. *)

Column(frame, col) == {frame[i][col] : i \in 1..Len(frame)}

Min(S) == CHOOSE x \in S : \A y \in S : x <= y
Max(S) == CHOOSE x \in S : \A y \in S : y <= x

\* ['All'] + sorted(df['Gender'].unique().tolist())
gender_options(frame) == {All} \cup Column(frame, "Gender")

\* ['All'] + sorted(df['Country'].unique().tolist())
country_options(frame) == {All} \cup Column(frame, "Country")

\* options=['All', 'Yes', 'No']
treatment_options == {All, Yes, No}

\* int(df['Age'].min()) of a frame with no row is int(nan), which raises
\* ValueError before the slider exists.
SliderRaises(frame) == frame = <<>>

\* The (low, high) pairs the range slider can return: low <= high, both
\* within min_value..max_value.
SliderValues(frame) ==
    LET ages == Column(frame, "Age")
    IN {<<lo, hi>> \in (Min(ages)..Max(ages)) \X (Min(ages)..Max(ages)) : lo <= hi}

\* value=(int(df['Age'].min()), int(df['Age'].max()))
SliderDefault(frame) ==
    <<Min(Column(frame, "Age")), Max(Column(frame, "Age"))>>

-----------------------------------------------------------------------------
(* The filter block. *)

\* GenderFilter with an empty selection taken as no restriction.
GenderFilter_EmptyIsAll(frame, genders) ==
    IF All \notin genders /\ genders # {}
    THEN LET isin(r) == r.Gender \in genders IN SelectSeq(frame, isin)
    ELSE frame

\* if 'All' not in selected_gender: keep the rows with Gender.isin(...)
GenderFilter(frame, genders) ==
    IF All \notin genders
    THEN LET isin(r) == r.Gender \in genders IN SelectSeq(frame, isin)
    ELSE frame

\* AgeFilter with the upper end exclusive.
AgeFilter_ExclusiveEnd(frame, range) ==
    LET between(r) == r.Age >= range[1] /\ r.Age < range[2]
    IN SelectSeq(frame, between)

\* AgeFilter that puts the bounds in order first.
AgeFilter_Swapping(frame, range) ==
    LET lo == IF range[1] <= range[2] THEN range[1] ELSE range[2]
        hi == IF range[1] <= range[2] THEN range[2] ELSE range[1]
        between(r) == r.Age >= lo /\ r.Age <= hi
    IN SelectSeq(frame, between)

\* (Age >= age_range[0]) & (Age <= age_range[1])
AgeFilter(frame, range) ==
    LET between(r) == r.Age >= range[1] /\ r.Age <= range[2]
    IN SelectSeq(frame, between)

\* CountryFilter with the test for 'All' inverted.
CountryFilter_Inverted(frame, countries) ==
    IF All \in countries
    THEN LET isin(r) == r.Country \in countries IN SelectSeq(frame, isin)
    ELSE frame

\* if 'All' not in selected_countries: keep the rows with Country.isin(...)
CountryFilter(frame, countries) ==
    IF All \notin countries
    THEN LET isin(r) == r.Country \in countries IN SelectSeq(frame, isin)
    ELSE frame

\* TreatmentFilter without the test for 'All'.
TreatmentFilter_NoAllTest(frame, status) ==
    LET eq(r) == r.treatment = status IN SelectSeq(frame, eq)

\* if treatment_filter != 'All': keep the rows with treatment == treatment_filter
TreatmentFilter(frame, status) ==
    IF status # All
    THEN LET eq(r) == r.treatment = status IN SelectSeq(frame, eq)
    ELSE frame

\* filtered_df, from a copy of df through the four steps in their order.
ApplyFilters(frame, genders, range, countries, status) ==
    TreatmentFilter(
        CountryFilter(AgeFilter(GenderFilter(frame, genders), range), countries),
        status)

-----------------------------------------------------------------------------
(* One run of the script. *)

\* Lines 173 and 181: value_counts().get('Yes', 0) / len(filtered_df) * 100.
\* On a view without rows value_counts() is empty, get returns its default,
\* the int 0, and 0 / 0 raises ZeroDivisionError.
KeyMetricsRaises(view) == Len(view) = 0

\* pd.crosstab(filtered_df[...], filtered_df['treatment']): the columns of
\* the result are the treatment values that occur in the view.
crosstab_columns(view) == Column(view, "treatment")

\* Lines 338 and 344 (and each later chart of a cross-tabulation):
\* age_treatment['No'], age_treatment['Yes'] raise KeyError for a column the
\* cross-tabulation does not have.
CrosstabRaises(view) == ~({No, Yes} \subseteq crosstab_columns(view))

\* Lines 165-710, the part of the script after the filter block: the key
\* metrics first, then the tabs with their charts, the summary and the
\* download button.
Render(view) ==
    IF KeyMetricsRaises(view) THEN "ZeroDivisionError"
    ELSE IF CrosstabRaises(view) THEN "KeyError"
    ELSE "done"

\* A filter block that goes on from the view of the run before.
FilterStart_PreviousView(frame, previous) ==
    IF previous # <<>> THEN previous ELSE frame

\* Line 152, filtered_df = df.copy(): the filters of a run start from the whole
\* table, whatever view the run before (previous) has left.
FilterStart(frame, previous) == frame

\* try: df = load_data() ... except: data_loaded = False
LoadStep(res) ==
    /\ data_loaded' = ~res.raised
    /\ df' = res.value
    /\ cache' = IF res.raised THEN cache ELSE <<res.value>>

\* No widget has a value and there is no view.
NoView ==
    /\ selected_gender' = {}
    /\ age_range' = <<>>
    /\ selected_countries' = {}
    /\ treatment_filter' = All
    /\ filtered_df' = <<>>
    /\ render' = "none"

\* The script from its first line to its last, the widgets returning genders,
\* range, countries and status.  An exception ends the run where it is
\* raised; the sidebar, drawn before, stays in use.
Script(genders, range, countries, status) ==
    LET res == cached_load_data(cache, source, copy_on_write)
    IN /\ LoadStep(res)
       /\ IF res.raised
          THEN pc' = "load_failed" /\ NoView
          ELSE IF SliderRaises(res.value)
          THEN /\ pc' = "slider_failed"
               /\ selected_gender' = genders
               /\ age_range' = <<>>
               /\ selected_countries' = {}
               /\ treatment_filter' = All
               /\ filtered_df' = <<>>
               /\ render' = "none"
          ELSE /\ pc' = "filtered"
               /\ selected_gender' = genders
               /\ age_range' = range
               /\ selected_countries' = countries
               /\ treatment_filter' = status
               /\ filtered_df' =
                      ApplyFilters(FilterStart(res.value, filtered_df),
                                   genders, range, countries, status)
               /\ render' = Render(filtered_df')
       /\ UNCHANGED <<source, copy_on_write>>

\* A new session opens the page (or the page is reloaded): every widget
\* returns its default.
Open ==
    LET res == cached_load_data(cache, source, copy_on_write)
    IN Script({All},
              IF res.raised \/ SliderRaises(res.value) THEN <<>>
              ELSE SliderDefault(res.value),
              {All}, All)

\* The user changes one widget of the page shown, and the script runs again
\* with the other widgets as they were.

\* One option of the gender multiselect is added or removed.
ChangeGender ==
    /\ pc = "filtered"
    /\ \E g \in gender_options(df) :
          Script(IF g \in selected_gender THEN selected_gender \ {g}
                 ELSE selected_gender \cup {g},
                 age_range, selected_countries, treatment_filter)

\* The handles of the age slider are moved.
ChangeAge ==
    /\ pc = "filtered"
    /\ \E range \in SliderValues(df) :
          Script(selected_gender, range, selected_countries, treatment_filter)

\* One option of the country multiselect is added or removed.
ChangeCountry ==
    /\ pc = "filtered"
    /\ \E c \in country_options(df) :
          Script(selected_gender, age_range,
                 IF c \in selected_countries THEN selected_countries \ {c}
                 ELSE selected_countries \cup {c},
                 treatment_filter)

\* Another treatment status is picked.
ChangeTreatment ==
    /\ pc = "filtered"
    /\ \E status \in treatment_options :
          Script(selected_gender, age_range, selected_countries, status)

Init ==
    /\ source \in Files(SampleRows)
    /\ copy_on_write \in BOOLEAN
    /\ cache = <<>>
    /\ data_loaded = FALSE
    /\ df = <<>>
    /\ selected_gender = {}
    /\ age_range = <<>>
    /\ selected_countries = {}
    /\ treatment_filter = All
    /\ filtered_df = <<>>
    /\ pc = "start"
    /\ render = "none"

Next ==
    \/ Open
    \/ ChangeGender
    \/ ChangeAge
    \/ ChangeCountry
    \/ ChangeTreatment

Spec == Init /\ [][Next]_vars

-----------------------------------------------------------------------------
(* load_data on its own, over more files. *)

\* Lines 103-110: the call of load_data and the flag it sets.
LoadData ==
    /\ pc = "start"
    /\ LET res == cached_load_data(cache, source, copy_on_write)
       IN /\ LoadStep(res)
          /\ pc' = IF res.raised THEN "load_failed" ELSE "loaded"
    /\ UNCHANGED <<source, copy_on_write, selected_gender, age_range,
                   selected_countries, treatment_filter, filtered_df, render>>

InitLoad ==
    /\ source \in Files(LoaderRows)
    /\ copy_on_write \in BOOLEAN
    /\ cache = <<>>
    /\ data_loaded = FALSE
    /\ df = <<>>
    /\ selected_gender = {}
    /\ age_range = <<>>
    /\ selected_countries = {}
    /\ treatment_filter = All
    /\ filtered_df = <<>>
    /\ pc = "start"
    /\ render = "none"

NextLoad == LoadData \/ Open

SpecLoad == InitLoad /\ [][NextLoad]_vars

-----------------------------------------------------------------------------
(* The filter block called with criteria that come from no widget. *)

\* Age bounds a caller may pass: any pair, low above high included.
AnyRange == (25..27) \X (25..27)

\* Lines 151-163 on the loaded table and the criteria given.
ApplyFiltersCall ==
    /\ pc = "loaded"
    /\ \E genders \in SUBSET gender_options(df),
          range \in AnyRange,
          countries \in SUBSET country_options(df),
          status \in treatment_options :
          /\ selected_gender' = genders
          /\ age_range' = range
          /\ selected_countries' = countries
          /\ treatment_filter' = status
          /\ filtered_df' = ApplyFilters(df, genders, range, countries, status)
    /\ pc' = "filtered"
    /\ UNCHANGED <<source, copy_on_write, cache, data_loaded, df, render>>

NextApi == LoadData \/ ApplyFiltersCall

SpecApi == Init /\ [][NextApi]_vars

-----------------------------------------------------------------------------
(* Runs of the script in one server process while survey.csv is edited. *)

\* Rows of the files the cache is exercised on: two that load and one whose
\* Timestamp makes load_data raise.
CacheRows == {r \in SampleRows : r.Age \in {25, 26}}

\* survey.csv is replaced by another file while the server keeps running.
\* Nothing of the process changes; pc records that no run has used the new
\* file yet.
ChangeSource ==
    /\ \E src \in Files(CacheRows) : src # source /\ source' = src
    /\ pc' = "source_changed"
    /\ UNCHANGED <<copy_on_write, cache, data_loaded, df, selected_gender,
                   age_range, selected_countries, treatment_filter,
                   filtered_df, render>>

InitCache ==
    /\ source \in Files(CacheRows)
    /\ copy_on_write \in BOOLEAN
    /\ cache = <<>>
    /\ data_loaded = FALSE
    /\ df = <<>>
    /\ selected_gender = {}
    /\ age_range = <<>>
    /\ selected_countries = {}
    /\ treatment_filter = All
    /\ filtered_df = <<>>
    /\ pc = "start"
    /\ render = "none"

NextCache == Open \/ ChangeSource

SpecCache == InitCache /\ [][NextCache]_vars

-----------------------------------------------------------------------------
(* Properties of the filter block. *)

\* The four predicates of the filter contract on one row.
GenderOk(r, genders) == All \in genders \/ r.Gender \in genders
AgeOk(r, range) == range[1] <= r.Age /\ r.Age <= range[2]
CountryOk(r, countries) == All \in countries \/ r.Country \in countries
TreatmentOk(r, status) == status = All \/ r.treatment = status

\* The positions of the canonical rows that satisfy all four at once.
Passing(frame, genders, range, countries, status) ==
    {i \in 1..Len(frame) :
        /\ GenderOk(frame[i], genders)
        /\ AgeOk(frame[i], range)
        /\ CountryOk(frame[i], countries)
        /\ TreatmentOk(frame[i], status)}

\* The k-th smallest member of a set of positions.
Nth(S, k) == CHOOSE i \in S : Cardinality({j \in S : j < i}) = k - 1

\* view holds exactly the rows of frame at the positions S, in their order.
IsRestriction(view, frame, S) ==
    /\ Len(view) = Cardinality(S)
    /\ \A k \in 1..Len(view) : view[k] = frame[Nth(S, k)]

\* C1: the filtered view is exactly the canonical rows, in canonical order,
\* that satisfy the gender, age (both ends inclusive), country and treatment
\* predicates at once.
C1_FilterIsConjunction ==
    pc = "filtered" =>
        IsRestriction(filtered_df, df,
                      Passing(df, selected_gender, age_range,
                              selected_countries, treatment_filter))

\* C1 witness: countries {Germany} and treatment 'Yes' on a table that holds
\* a German 'Yes' row and a German 'No' row; the view keeps the first alone.
C1_Witness ==
    /\ pc = "filtered"
    /\ selected_countries = {Germany} /\ treatment_filter = Yes
    /\ \E i \in 1..Len(df) : df[i].Country = Germany /\ df[i].treatment = No
    /\ Len(filtered_df) = 1
    /\ filtered_df[1].Country = Germany /\ filtered_df[1].treatment = Yes

\* C2: with genders, countries and treatment at 'All' and the age range at
\* the slider's full range, the view is the canonical table, row for row.
C2_FilterIdentity ==
    (/\ pc = "filtered"
     /\ selected_gender = {All} /\ selected_countries = {All}
     /\ treatment_filter = All
     /\ age_range = <<Min(Column(df, "Age")), Max(Column(df, "Age"))>>)
    => filtered_df = df

\* C2 witness: the identity criteria on a table of several different rows.
C2_Witness ==
    /\ pc = "filtered"
    /\ selected_gender = {All} /\ selected_countries = {All}
    /\ treatment_filter = All
    /\ age_range = <<Min(Column(df, "Age")), Max(Column(df, "Age"))>>
    /\ Len(df) >= 2 /\ df[1].Age # df[2].Age /\ df[1].treatment # df[2].treatment
    /\ filtered_df = df

\* The number of canonical rows that satisfy the predicates other than gender.
CountButGender ==
    Cardinality({i \in 1..Len(df) :
        /\ AgeOk(df[i], age_range)
        /\ CountryOk(df[i], selected_countries)
        /\ TreatmentOk(df[i], treatment_filter)})

\* The number of canonical rows that satisfy the predicates other than country.
CountButCountry ==
    Cardinality({i \in 1..Len(df) :
        /\ GenderOk(df[i], selected_gender)
        /\ AgeOk(df[i], age_range)
        /\ TreatmentOk(df[i], treatment_filter)})

\* C3: an empty genders selection gives a view of zero rows whatever the
\* other criteria, while 'All' among the genders removes no row; the same
\* for countries.
C3_EmptySetSemantics ==
    pc = "filtered" =>
        /\ selected_gender = {} => filtered_df = <<>>
        /\ selected_countries = {} => filtered_df = <<>>
        /\ All \in selected_gender => Len(filtered_df) = CountButGender
        /\ All \in selected_countries => Len(filtered_df) = CountButCountry

\* C3 witness: nothing selected for genders, every other criterion open, on
\* a table with rows: the view is empty because of the genders alone.
C3_Witness ==
    /\ pc = "filtered"
    /\ selected_gender = {}
    /\ selected_countries = {All} /\ treatment_filter = All
    /\ CountButGender = Len(df) /\ Len(df) >= 2
    /\ filtered_df = <<>>

\* A selection that restricts at least as much as another one.
SelectionWithin(tight, loose) ==
    \/ All \in loose /\ All \notin tight
    \/ All \notin loose /\ All \notin tight /\ tight \subseteq loose

\* The number of rows of the view that the criteria given select.
ViewSize(genders, range, countries, status) ==
    Len(ApplyFilters(df, genders, range, countries, status))

\* C4: criteria that differ from the current ones in one criterion, and are
\* more restrictive there, give a view of at most as many rows: genders or
\* countries taken from 'All' to a set or from a set to a subset, the age
\* range narrowed to a sub-interval, the treatment taken from 'All' to 'Yes'
\* or 'No'.
C4_FilterMonotonicity ==
    pc = "filtered" =>
        /\ \A g \in SUBSET gender_options(df) :
              SelectionWithin(g, selected_gender) =>
                  ViewSize(g, age_range, selected_countries, treatment_filter)
                      <= Len(filtered_df)
        /\ \A r \in SliderValues(df) :
              (age_range[1] <= r[1] /\ r[2] <= age_range[2]) =>
                  ViewSize(selected_gender, r, selected_countries, treatment_filter)
                      <= Len(filtered_df)
        /\ \A c \in SUBSET country_options(df) :
              SelectionWithin(c, selected_countries) =>
                  ViewSize(selected_gender, age_range, c, treatment_filter)
                      <= Len(filtered_df)
        /\ \A t \in {Yes, No} :
              treatment_filter = All =>
                  ViewSize(selected_gender, age_range, selected_countries, t)
                      <= Len(filtered_df)

\* C4 witness: a view of several rows of which a subset of the selected
\* genders, a narrower age range and a single treatment each keep fewer.
C4_Witness ==
    /\ pc = "filtered"
    /\ Len(filtered_df) >= 2
    /\ All \notin selected_gender
    /\ \E g \in SUBSET selected_gender :
          ViewSize(g, age_range, selected_countries, treatment_filter)
              \in 1..(Len(filtered_df) - 1)
    /\ \E r \in SliderValues(df) :
          /\ age_range[1] <= r[1] /\ r[2] <= age_range[2]
          /\ ViewSize(selected_gender, r, selected_countries, treatment_filter)
                 < Len(filtered_df)
    /\ treatment_filter = All
    /\ ViewSize(selected_gender, age_range, selected_countries, Yes)
           < Len(filtered_df)

-----------------------------------------------------------------------------
(* Properties of load_data. *)

\* The source row a canonical row was made from.
SourceOf(r) == source[r.index + 1]

\* Whether a source row is within the age bounds.
InAgeBounds(row) == 16 < row.Age /\ row.Age < 100

\* C5: every record of the canonical table has 16 < Age < 100, and no source
\* row with Age <= 16 or Age >= 100 is in the canonical table or in a view.
C5_AgeBound ==
    data_loaded =>
        /\ \A k \in 1..Len(df) : 16 < df[k].Age /\ df[k].Age < 100
        /\ \A i \in 1..Len(source) :
              (source[i].Age <= 16 \/ source[i].Age >= 100) =>
                  /\ \A k \in 1..Len(df) : df[k].index # i - 1
                  /\ \A k \in 1..Len(filtered_df) : filtered_df[k].index # i - 1
        /\ \A k \in 1..Len(filtered_df) :
              16 < filtered_df[k].Age /\ filtered_df[k].Age < 100

\* C5 witness: a file with a row of Age 16 or 100 and another row in bounds
\* was loaded and shown; the table and the view hold the second row alone.
C5_Witness ==
    /\ pc = "filtered"
    /\ \E i \in 1..Len(source) : source[i].Age \in {16, 100}
    /\ Len(df) = 1 /\ Len(filtered_df) = 1
    /\ df[1].Age \in {17, 99}

\* Raw spellings and the category each is expected to get.
GenderExamples ==
    { <<<<"C", "i", "s", " ", "M", "a", "l", "e">>, Male>>,
      <<<<"x", "y", "z", "1", "2", "3">>, Other>>,
      <<<<" ", "F", " ">>, Female>>,
      <<<<"M", "a", "l", "e", " ">>, Male>>,
      <<<<"M", "a", "l", "e">>, Male>>,
      <<<<"f", "e", "m", "a", "l", "e">>, Female>>,
      <<<<"m", "a", "l", "e">>, Male>>,
      <<<<"M">>, Male>>,
      <<<<"F", "e", "m", "a", "l", "e", " ", "(", "t", "r", "a", "n", "s", ")">>, Trans>>,
      <<<<"\t", "W", "o", "m", "a", "n", "\n">>, Female>>,
      <<<<"E", "n", "b", "y">>, NonBinary>>,
      <<<<"M", "A", "L", "E">>, Male>>,
      <<<<" ", " ">>, Other>>,
      <<<<"M", "a", "l", "e", "-", "i", "s", "h">>, Male>>,
      <<<<"f">>, Female>>,
      <<<<"F", "e", "m", "a", "l", "e">>, Female>>,
      <<<<"G", "u", "y">>, Other>>,
      <<<<"q", "u", "e", "e", "r">>, NonBinary>>,
      <<NaN, Other>> }

\* C6: a kept row's Gender is the synonym-table entry of its raw value
\* lower-cased and trimmed, 'Other' without an entry; so it is one of the
\* five categories. The examples fix the outcome for the spellings at hand.
C6_GenderNormalization ==
    data_loaded =>
        \A k \in 1..Len(df) :
            LET raw == SourceOf(df[k]).Gender
                key == str_strip(str_lower(raw))
            IN /\ df[k].Gender \in {Male, Female, Trans, NonBinary, Other}
               /\ \A i \in 1..Len(gender_map) :
                     gender_map[i][1] = key => df[k].Gender = gender_map[i][2]
               /\ (\A i \in 1..Len(gender_map) : gender_map[i][1] # key)
                     => df[k].Gender = Other
               /\ \A e \in GenderExamples : e[1] = raw => df[k].Gender = e[2]

\* C6 witness: 'Cis Male' and 'xyz123' were loaded as 'Male' and 'Other'.
C6_Witness ==
    /\ data_loaded
    /\ \E k \in 1..Len(df) :
          /\ SourceOf(df[k]).Gender = <<"C", "i", "s", " ", "M", "a", "l", "e">>
          /\ df[k].Gender = Male
    /\ \E k \in 1..Len(df) :
          /\ SourceOf(df[k]).Gender = <<"x", "y", "z", "1", "2", "3">>
          /\ df[k].Gender = Other

\* The label the bucket rule gives an age.
BucketLabel(age) ==
    IF 0 < age /\ age <= 25 THEN <<"1", "8", "-", "2", "5">>
    ELSE IF 25 < age /\ age <= 35 THEN <<"2", "6", "-", "3", "5">>
    ELSE IF 35 < age /\ age <= 45 THEN <<"3", "6", "-", "4", "5">>
    ELSE IF 45 < age /\ age <= 55 THEN <<"4", "6", "-", "5", "5">>
    ELSE <<"5", "6", "+">>

\* C7: every record has an Age_Group, never missing, which is the label of
\* the left-open, right-closed bucket of its Age.
C7_BucketTotality ==
    data_loaded =>
        \A k \in 1..Len(df) :
            df[k].Age_Group # NaN /\ df[k].Age_Group = BucketLabel(df[k].Age)

\* C7 witness: Age 35 and Age 36 were loaded as '26-35' and '36-45'.
C7_Witness ==
    /\ data_loaded
    /\ \E k \in 1..Len(df) :
          df[k].Age = 35 /\ df[k].Age_Group = <<"2", "6", "-", "3", "5">>
    /\ \E k \in 1..Len(df) :
          df[k].Age = 36 /\ df[k].Age_Group = <<"3", "6", "-", "4", "5">>

\* The cell a missing-value rule is expected to leave.
Filled(cell, value) == IF cell = NaN THEN value ELSE cell

\* C8: no record has a missing state, work_interfere or self_employed: a cell
\* missing in the source holds 'Not Applicable' ('No' for self_employed), a
\* cell present in the source is kept.
C8_MissingValueElimination ==
    data_loaded =>
        \A k \in 1..Len(df) :
            /\ df[k].state = Filled(SourceOf(df[k]).state, NotApplicable)
            /\ df[k].work_interfere =
                   Filled(SourceOf(df[k]).work_interfere, NotApplicable)
            /\ df[k].self_employed = Filled(SourceOf(df[k]).self_employed, No)
            /\ NaN \notin {df[k].state, df[k].work_interfere, df[k].self_employed}

\* Timestamps of the files that are no date and time.
BadTimestamps == {TsText, TsFeb30}

\* C10 as stated: a file with an unparseable Timestamp in any row fails to
\* load and leaves no table; after a load that succeeded, every row of the
\* file has a parseable Timestamp.
C10_AnyRowAborts ==
    pc # "start" =>
        /\ (\E i \in 1..Len(source) : source[i].Timestamp \in BadTimestamps)
              => ~data_loaded /\ df = <<>> /\ cache = <<>>
        /\ data_loaded =>
              \A i \in 1..Len(source) : source[i].Timestamp \notin BadTimestamps

\* C10 amended: a file with an unparseable Timestamp in a row that the age
\* filter keeps fails to load and leaves no table; after a load that
\* succeeded, every row the age filter keeps has a parseable Timestamp.
C10_KeptRowAborts ==
    pc # "start" =>
        /\ (\E i \in 1..Len(source) :
               InAgeBounds(source[i]) /\ source[i].Timestamp \in BadTimestamps)
              => ~data_loaded /\ df = <<>> /\ cache = <<>>
        /\ data_loaded =>
              \A i \in 1..Len(source) :
                  InAgeBounds(source[i]) =>
                      source[i].Timestamp \notin BadTimestamps

\* C10 witness: a file whose first row is fine and whose second row is in the
\* age bounds with a Timestamp that is no date failed to load as a whole.
C10_Witness ==
    /\ pc = "load_failed"
    /\ Len(source) = 2
    /\ InAgeBounds(source[1]) /\ source[1].Timestamp = TsGood
    /\ source[1].Gender # NaN
    /\ InAgeBounds(source[2]) /\ source[2].Timestamp \in BadTimestamps
    /\ ~data_loaded /\ df = <<>>

-----------------------------------------------------------------------------
(* The filter block on a malformed age range. *)

-----------------------------------------------------------------------------
\* The canonical table as load_data builds it from the source file.
Canonical == load_data(source, copy_on_write).value

\* C11: after any sequence of changes of the criteria, the view is the result
\* of the current criteria alone on the canonical table as load_data returns
\* it, and the table the script holds is still that canonical table.
C11_HistoryIndependence ==
    pc = "filtered" =>
        /\ df = Canonical
        /\ IsRestriction(filtered_df, Canonical,
                         Passing(Canonical, selected_gender, age_range,
                                 selected_countries, treatment_filter))

\* C11 witness: the gender and the treatment criteria both differ from their
\* defaults, which takes two runs at least after the page opened, and the view
\* holds some rows of the table but not all.
C11_Witness ==
    /\ pc = "filtered"
    /\ selected_gender # {All} /\ treatment_filter # All
    /\ filtered_df # <<>>
    /\ Len(filtered_df) < Len(df)

-----------------------------------------------------------------------------
\* A run of the script has called load_data since the file last changed.
RanOnSource == pc \notin {"start", "source_changed"}

\* C12 as stated: whatever the file was before, after a run the table in use
\* is the one load_data builds from the file as it is now (and there is none
\* if the file as it is now does not load).
C12_TableReflectsSource ==
    RanOnSource =>
        /\ data_loaded = ~load_data(source, copy_on_write).raised
        /\ data_loaded => df = Canonical

\* C12 as the code has it: the store is filled by the first call that
\* succeeds, from the file as it is at that call; from then on no step
\* changes the stored table, a change of the file included, and every run
\* gets that table.
C12_BuiltOncePerProcess ==
    [][/\ cache # <<>> => cache' = cache
       /\ (cache = <<>> /\ cache' # <<>>) => cache'[1] = Canonical
       /\ (RanOnSource' /\ cache' # <<>>) => (data_loaded' /\ df' = cache'[1])
       /\ (RanOnSource' /\ cache' = <<>>) =>
              (~data_loaded' /\ load_data(source, copy_on_write).raised)]_vars

\* C12 witness: a run has used the file as it is now, and the table it got
\* is not the table of that file.
C12_Witness ==
    /\ RanOnSource
    /\ data_loaded
    /\ ~load_data(source, copy_on_write).raised
    /\ df # Canonical

-----------------------------------------------------------------------------
\* The run was ended by an exception after the filter block.
RenderRaised == render \in {"ZeroDivisionError", "KeyError"}

\* C13: when the criteria leave no row in the view, the pass over the view
\* (key metrics, charts, summary) completes without raising; no percentage
\* is a division by a row count of zero.
C13_EmptyViewRenders ==
    (pc = "filtered" /\ filtered_df = <<>>) => ~RenderRaised

\* C14: when the criteria leave some row in the view, the pass over the view
\* completes without raising: the cross-tabulations by treatment have a 'Yes'
\* and a 'No' column when the charts read them.
C14_NonEmptyViewRenders ==
    (pc = "filtered" /\ filtered_df # <<>>) =>
        /\ {No, Yes} \subseteq crosstab_columns(filtered_df)
        /\ ~RenderRaised

====
